---- MODULE Spec2Model ----
(***************************************************************************)
(* Model of pulsar's Actor (src/pulsar/async/actor.py): the lifecycle      *)
(* start/stop/_stop/_run, the mailbox dispatch loop flush, the request     *)
(* handler handle_request_from_actor with the built-in actor_* functions,  *)
(* the heartbeat of __call__, and link/get_actor.  The event loop          *)
(* (eventloop.py) and the proxy (proxy.py) are collaborators whose         *)
(* interface is modelled as the operators marked "collaborator".           *)
(***************************************************************************)
EXTENDS Integers, Sequences, FiniteSets, TLC

\* ------------------------------------------------------------- constants
INITIAL == 0
RUN == 1
CLOSE == 2
TERMINATE == 3

DEFAULT_ACTOR_TIMEOUT == 30
\* ACTOR_TIMEOUT_TOLERANCE = 0.2, kept as the fraction 2/10.
ToleranceNum == 2
ToleranceDen == 10

\* ------------------------------------------------------------- bounds
MaxInbox == 3
MaxTime == 130
MaxPingInbox == 2
MaxDispatchInbox == 3
MaxIdleTime == 1400
MaxLinkInbox == 2
MaxOrderInbox == 3
MaxOrderTime == 6
MaxForcedInbox == 2
MaxBeatTime == 30
MaxLinksInbox == 1

\* ------------------------------------------------------------- universe
None == "none"
NoTime == -1
Actors == {"A", "B"}
Arb == "arb"
Mon == "mon"
Peer == "P"
Aids == Actors \cup {Arb, Mon, Peer}
Rids == {"r1", "r2"}

VARIABLES
    state,          \* a -> lifecycle state (_state)
    stopping,       \* a -> _stopping
    inbox,          \* a -> the mailbox queue (_inbox), oldest first
    closed,         \* a -> number of times _inbox.close() ran
    linked,         \* a -> key set of _linked_actors
    lastNotified,   \* a -> last_notified, NoTime while the attribute is absent
    notified,       \* a -> (aid -> caller.notified as seen by a)
    loop,           \* a -> ioloop status: "init", "running", "stopping", "stopped"
    cbPending,      \* a -> _stop callbacks registered on the ioloop's stop signal
    loopTask,       \* a -> the actor is registered as a loop task
    inRun,          \* a -> start() is inside _run()
    runExit,        \* a -> how _run ended: "none", "return", "exception", "systemexit"
    onStartN,       \* a -> number of on_start invocations
    onStopN,        \* a -> number of on_stop invocations
    onExitN,        \* a -> number of on_exit invocations
    stopReqN,       \* a -> number of ioloop.stop() requests
    exitNoticeN,    \* a -> number of on_actor_exit notices sent to the arbiter
    pendingAtStop,  \* a -> envelopes that were pending at stop() and are still queued
    waiters,        \* rid -> "none" (no waiter), "pending", or the result
    impl,           \* a -> "thread", "process" or "monitor"
    arbiter,        \* a -> aid of the arbiter or None
    monitor,        \* a -> aid of the monitor or None
    timeout,        \* a -> timeout in seconds
    onStopRet,      \* a -> on_stop() returns a truthy value
    now,            \* time()
    pc,             \* thread -> position inside stop()
    last            \* what the last operation did (observer, not program state)

vars == <<state, stopping, inbox, closed, linked, lastNotified, notified, loop,
          cbPending, loopTask, inRun, runExit, onStartN, onStopN, onExitN,
          stopReqN, exitNoticeN, pendingAtStop, waiters, impl, arbiter, monitor,
          timeout, onStopRet, now, pc, last>>

cfgVars == <<impl, arbiter, monitor, timeout, onStopRet>>

Threads == {"t1", "t2"}

\* ------------------------------------------------------------- the world
\* The mutable fields, gathered so that a method is an operator World -> World.
\* out (envelopes sent), popped (envelopes taken from the inbox), accepted (those
\* handed to handle_request_from_actor), dispatched (those handed to a handler),
\* faults (exceptions raised inside flush's try), tasks (on_task calls), beats (notifies)
\* and escaped (an exception left the operation) record what one operation did.
World ==
    [state |-> state, stopping |-> stopping, inbox |-> inbox, closed |-> closed,
     linked |-> linked, lastNotified |-> lastNotified, notified |-> notified,
     loop |-> loop, cbPending |-> cbPending, loopTask |-> loopTask,
     inRun |-> inRun, runExit |-> runExit,
     onStartN |-> onStartN, onStopN |-> onStopN, onExitN |-> onExitN,
     stopReqN |-> stopReqN, exitNoticeN |-> exitNoticeN,
     pendingAtStop |-> pendingAtStop, waiters |-> waiters,
     out |-> <<>>, popped |-> <<>>, accepted |-> <<>>, dispatched |-> <<>>,
     faults |-> 0, tasks |-> 0, beats |-> 0, escaped |-> FALSE]

Commit(w, op, a) ==
    /\ state' = w.state
    /\ stopping' = w.stopping
    /\ inbox' = w.inbox
    /\ closed' = w.closed
    /\ linked' = w.linked
    /\ lastNotified' = w.lastNotified
    /\ notified' = w.notified
    /\ loop' = w.loop
    /\ cbPending' = w.cbPending
    /\ loopTask' = w.loopTask
    /\ inRun' = w.inRun
    /\ runExit' = w.runExit
    /\ onStartN' = w.onStartN
    /\ onStopN' = w.onStopN
    /\ onExitN' = w.onExitN
    /\ stopReqN' = w.stopReqN
    /\ exitNoticeN' = w.exitNoticeN
    /\ pendingAtStop' = w.pendingAtStop
    /\ waiters' = w.waiters
    /\ last' = [op |-> op, a |-> a, out |-> w.out, popped |-> w.popped,
                accepted |-> w.accepted, dispatched |-> w.dispatched, faults |-> w.faults,
                tasks |-> w.tasks, beats |-> w.beats, escaped |-> w.escaped]

NoLast == [op |-> "init", a |-> None, out |-> <<>>, popped |-> <<>>, accepted |-> <<>>,
           dispatched |-> <<>>, faults |-> 0, tasks |-> 0, beats |-> 0,
           escaped |-> FALSE]

\* An envelope (ActorRequest): sender aid, name, rid, ack flag and payload.
\* For a callback envelope rid is the correlation id answered and arg the result.
Env(aid, name, rid, ack, arg) ==
    [aid |-> aid, name |-> name, rid |-> rid, ack |-> ack, arg |-> arg]

\* ------------------------------------------------------------- collaborators
\* ActorProxy: proxy.<name>(target, ...) builds a request and puts it on the
\* target's inbox.  A target that is no actor (None) has no inbox: the call raises.
\* Only the inboxes of the actors modelled here are kept; every send is logged in out.
ProxySend(w, to, env) ==
    IF to = None
    THEN [w |-> w, raised |-> TRUE]
    ELSE LET w1 == [w EXCEPT !.out = Append(@, [to |-> to, env |-> env])]
         IN [w |-> IF to \in Actors
                   THEN [w1 EXCEPT !.inbox[to] = Append(@, env)]
                   ELSE w1,
             raised |-> FALSE]

\* ActorRequest.actor_callback(rid, result): resolves the waiter registered for rid.
RequestCallback(w, rid, result) ==
    IF rid \in DOMAIN w.waiters /\ w.waiters[rid] = "pending"
    THEN [w EXCEPT !.waiters[rid] = result]
    ELSE w

\* IOLoop.stop(): asks a running loop to stop and returns its stop signal.
StopIoloop(w, a) ==
    [w EXCEPT !.loop[a] = IF @ = "running" THEN "stopping" ELSE @,
              !.stopReqN[a] = @ + 1]

\* ....add_callback(lambda r: self._stop()) on that signal.
AddStopCallback(w, a) == [w EXCEPT !.cbPending[a] = @ + 1]

\* ------------------------------------------------------------- predicates
is_alive(w, a) == w.state[a] = RUN
started(w, a) == w.state[a] >= RUN
stopped(w, a) == w.state[a] >= CLOSE

\* ------------------------------------------------------------- pickling
\* Mutant: __reduce__ returns a value.
reduce_ok(w, a) == [w |-> w, raised |-> FALSE]

\* __reduce__: always raises pickle.PicklingError.
reduce(w, a) == [w |-> w, raised |-> TRUE]

\* ------------------------------------------------------------- addressing
NoActor == [aid |-> None, via |-> "none"]

\* Mutant: the lookup that tries the arbiter before the link registry.
get_actor_arbiter_first(w, a, aid) ==
    IF aid = a THEN [aid |-> aid, via |-> "self"]
    ELSE IF arbiter[a] # None /\ aid = arbiter[a] THEN [aid |-> aid, via |-> "arbiter"]
    ELSE IF aid \in w.linked[a] THEN [aid |-> aid, via |-> "link"]
    ELSE IF monitor[a] # None /\ aid = monitor[a] THEN [aid |-> aid, via |-> "monitor"]
    ELSE NoActor

\* Mutant: the lookup without the link registry.
get_actor_unlinked(w, a, aid) ==
    IF aid = a THEN [aid |-> aid, via |-> "self"]
    ELSE IF arbiter[a] # None /\ aid = arbiter[a] THEN [aid |-> aid, via |-> "arbiter"]
    ELSE IF monitor[a] # None /\ aid = monitor[a] THEN [aid |-> aid, via |-> "monitor"]
    ELSE NoActor

get_actor(w, a, aid) ==
    IF aid = a THEN [aid |-> aid, via |-> "self"]
    ELSE IF aid \in w.linked[a] THEN [aid |-> aid, via |-> "link"]
    ELSE IF arbiter[a] # None /\ aid = arbiter[a] THEN [aid |-> aid, via |-> "arbiter"]
    ELSE IF monitor[a] # None /\ aid = monitor[a] THEN [aid |-> aid, via |-> "monitor"]
    ELSE NoActor

\* Mutant: link(other) also enters the actor in other's registry.
link_mutual(w, a, other) ==
    IF other \in Actors
    THEN [w EXCEPT !.linked[a] = @ \cup {other}, !.linked[other] = @ \cup {a}]
    ELSE [w EXCEPT !.linked[a] = @ \cup {other}]

link(w, a, other) == [w EXCEPT !.linked[a] = @ \cup {other}]

\* ------------------------------------------------------------- stopping
\* stop(): the guard, the flag, on_stop and the request to the ioloop.
\* Mutant: the guard without the is_alive() test.
StopGuardAnyState(w, a) == ~w.stopping[a]

StopGuard(w, a) == is_alive(w, a) /\ ~w.stopping[a]

SetStopping(w, a) ==
    [w EXCEPT !.stopping[a] = TRUE, !.pendingAtStop[a] = Len(w.inbox[a])]

CallOnStop(w, a) == [w EXCEPT !.onStopN[a] = @ + 1]

\* Mutant: stop() asks the ioloop to stop and registers no callback.
stop_no_callback(w, a) ==
    IF StopGuard(w, a)
    THEN LET w1 == CallOnStop(SetStopping(w, a), a)
         IN IF ~onStopRet[a] THEN StopIoloop(w1, a) ELSE w1
    ELSE w

\* Mutant: stop() finalizes at once, without waiting for the ioloop.
stop_immediate(w, a) ==
    IF StopGuard(w, a)
    THEN LET w1 == CallOnStop(SetStopping(w, a), a)
         IN IF ~onStopRet[a]
            THEN [StopIoloop(w1, a) EXCEPT !.onExitN[a] = @ + 1, !.state[a] = CLOSE,
                                           !.stopping[a] = FALSE, !.closed[a] = @ + 1]
            ELSE w1
    ELSE w

\* Mutant: stop() asks the ioloop to stop whatever on_stop returns.
stop_whatever_on_stop(w, a) ==
    IF StopGuard(w, a)
    THEN AddStopCallback(StopIoloop(CallOnStop(SetStopping(w, a), a), a), a)
    ELSE w

stop(w, a) ==
    IF StopGuard(w, a)
    THEN LET w1 == CallOnStop(SetStopping(w, a), a)
         IN IF ~onStopRet[a] THEN AddStopCallback(StopIoloop(w1, a), a) ELSE w1
    ELSE w

\* Mutant: terminate() ends the actor at once in the state TERMINATE.
terminate_hard(w, a) ==
    IF is_alive(w, a) THEN [w EXCEPT !.state[a] = TERMINATE, !.loopTask[a] = FALSE] ELSE w

terminate(w, a) == stop(w, a)

\* _stop(): the callback after the event loop has stopped.
ExitNotice(a) == Env(a, "on_actor_exit", None, FALSE, None)

FinalizeGuard(w, a) == w.stopping[a]

\* Mutant: _stop leaves the actor in the state TERMINATE.
FinalizeHeadTerminated(w, a) ==
    [w EXCEPT !.onExitN[a] = @ + 1, !.state[a] = TERMINATE, !.loopTask[a] = FALSE]

\* Mutant: the inbox is closed where the stopping flag is cleared.
ClearStoppingAndClose(w, a) == [w EXCEPT !.stopping[a] = FALSE, !.closed[a] = @ + 1]

\* The statements of _stop: self.on_exit(), self._state = self.CLOSE,
\* self.ioloop.remove_loop_task(self), self._stopping = False, self._inbox.close().
CallOnExit(w, a) == [w EXCEPT !.onExitN[a] = @ + 1]
SetClose(w, a) == [w EXCEPT !.state[a] = CLOSE]
RemoveLoopTask(w, a) == [w EXCEPT !.loopTask[a] = FALSE]
ClearStopping(w, a) == [w EXCEPT !.stopping[a] = FALSE]
CloseInbox(w, a) == [w EXCEPT !.closed[a] = @ + 1]

\* The body of _stop up to the notice to the arbiter.
FinalizeHead(w, a) == RemoveLoopTask(SetClose(CallOnExit(w, a), a), a)

\* The body of _stop after the notice.
FinalizeTail(w, a) == CloseInbox(ClearStopping(w, a), a)

_stop(w, a) ==
    IF FinalizeGuard(w, a)
    THEN LET w1 == FinalizeHead(w, a)
         IN IF impl[a] # "monitor"
            THEN LET r == ProxySend(w1, arbiter[a], ExitNotice(a))
                 IN IF r.raised
                    THEN [r.w EXCEPT !.escaped = TRUE]
                    ELSE FinalizeTail([r.w EXCEPT !.exitNoticeN[a] = @ + 1], a)
            ELSE FinalizeTail(w1, a)
    ELSE w

\* ------------------------------------------------------------- handlers
\* actor_functions: name -> ack flag of the handler (getattr(func, 'ack', True)).
\* "task" stands for a handler declared by a subclass without an ack attribute;
\* it raises when its payload is "raise".
ActorFunctions ==
    [callback |-> FALSE, stop |-> FALSE, notify |-> FALSE, on_actor_exit |-> FALSE,
     info |-> TRUE, ping |-> TRUE, task |-> TRUE]

HasHandler(name) == name \in DOMAIN ActorFunctions

\* Mutant: every handler is taken to want an acknowledgement.
HandlerAckAll(name) == TRUE

HandlerAck(name) == ActorFunctions[name]

Ret(w, raised, result) == [w |-> w, raised |-> raised, result |-> result]

actor_callback(w, a, caller, req) == Ret(RequestCallback(w, req.rid, req.arg), FALSE, None)

\* Mutant: the stop handler finalizes within the handling of the request.
actor_stop_now(w, a, caller, req) == Ret(_stop(stop(w, a), a), FALSE, None)

actor_stop(w, a, caller, req) == Ret(stop(w, a), FALSE, None)

\* Mutant: the time is recorded as the receiver's own last notify.
actor_notify_self(w, a, caller, req) ==
    IF caller.aid = None
    THEN Ret(w, TRUE, None)
    ELSE Ret([w EXCEPT !.lastNotified[a] = req.arg], FALSE, None)

actor_notify(w, a, caller, req) ==
    IF caller.aid = None
    THEN Ret(w, TRUE, None)
    ELSE Ret([w EXCEPT !.notified[a][caller.aid] = req.arg], FALSE, None)

\* Mutant: the handler takes a caller that is not linked without an error.
actor_on_actor_exit_discard(w, a, caller, req) ==
    IF caller.aid = None \/ caller.aid \notin w.linked[a]
    THEN Ret(w, FALSE, None)
    ELSE Ret([w EXCEPT !.linked[a] = @ \ {caller.aid}], FALSE, None)

\* Mutant: the handler leaves the link registry as it is.
actor_on_actor_exit_keep(w, a, caller, req) ==
    IF caller.aid = None \/ caller.aid \notin w.linked[a]
    THEN Ret(w, TRUE, None)
    ELSE Ret(w, FALSE, None)

actor_on_actor_exit(w, a, caller, req) ==
    IF caller.aid = None \/ caller.aid \notin w.linked[a]
    THEN Ret(w, TRUE, None)
    ELSE Ret([w EXCEPT !.linked[a] = @ \ {caller.aid}], FALSE, None)

actor_info(w, a, caller, req) == Ret(w, FALSE, "info")

actor_ping(w, a, caller, req) == Ret(w, FALSE, "pong")

actor_task(w, a, caller, req) ==
    IF req.arg = "raise" THEN Ret(w, TRUE, None) ELSE Ret(w, FALSE, "done")

CallHandler(w, a, caller, req) ==
    CASE req.name = "callback" -> actor_callback(w, a, caller, req)
      [] req.name = "stop" -> actor_stop(w, a, caller, req)
      [] req.name = "notify" -> actor_notify(w, a, caller, req)
      [] req.name = "on_actor_exit" -> actor_on_actor_exit(w, a, caller, req)
      [] req.name = "info" -> actor_info(w, a, caller, req)
      [] req.name = "ping" -> actor_ping(w, a, caller, req)
      [] req.name = "task" -> actor_task(w, a, caller, req)

\* Whether handle_request_from_actor answers with a callback: the handler's flag.
WantsCallback(req) == HandlerAck(req.name)

CallbackEnv(a, req, result) == Env(a, "callback", req.rid, FALSE, result)

\* Mutant: a request without a handler is an error.
NoHandlerRaises(w) == [w |-> w, raised |-> TRUE]

\* getattr(self, 'actor_<name>', None) found nothing: the request is skipped.
NoHandler(w) == [w |-> w, raised |-> FALSE]

handle_request_from_actor(w, a, caller, req) ==
    IF HasHandler(req.name)
    THEN LET w0 == [w EXCEPT !.dispatched = Append(@, req)]
             r == CallHandler(w0, a, caller, req)
         IN IF r.raised
            THEN [w |-> r.w, raised |-> TRUE]
            ELSE IF WantsCallback(req)
                 THEN ProxySend(r.w, caller.aid, CallbackEnv(a, req, r.result))
                 ELSE [w |-> r.w, raised |-> FALSE]
    ELSE NoHandler(w)

\* ------------------------------------------------------------- flush
\* Mutant: the newest envelope leaves the queue.
PopLast(w, a) ==
    [w EXCEPT !.inbox[a] = SubSeq(@, 1, Len(@) - 1),
              !.popped = Append(@, w.inbox[a][Len(w.inbox[a])]),
              !.pendingAtStop[a] = IF @ > 0 THEN @ - 1 ELSE 0]

\* inbox.get(timeout): the oldest envelope leaves the queue.
Pop(w, a) ==
    [w EXCEPT !.inbox[a] = Tail(@),
              !.popped = Append(@, Head(w.inbox[a])),
              !.pendingAtStop[a] = IF @ > 0 THEN @ - 1 ELSE 0]

\* Mutant: the request is handled whether or not its sender is known.
FlushTryAlways(w, a, closing, req) ==
    handle_request_from_actor([w EXCEPT !.accepted = Append(@, req)], a,
                              get_actor(w, a, req.aid), req)

\* Mutant: a request of an unknown sender is dropped also when closing.
FlushTryDropUnknown(w, a, closing, req) ==
    LET actor == get_actor(w, a, req.aid)
    IN IF actor.aid = None
       THEN [w |-> w, raised |-> FALSE]
       ELSE handle_request_from_actor([w EXCEPT !.accepted = Append(@, req)], a, actor, req)

\* The try body of flush for one request.
FlushTry(w, a, closing, req) ==
    LET actor == get_actor(w, a, req.aid)
    IN IF actor.aid = None /\ ~closing
       THEN [w |-> w, raised |-> FALSE]
       ELSE handle_request_from_actor([w EXCEPT !.accepted = Append(@, req)], a, actor, req)

\* Mutant: the except clause raises the error again.
ExceptClauseReraise(r) == [w |-> r.w, raised |-> TRUE]

\* except Exception: the error is logged and the loop goes on.
ExceptClause(r) == [w |-> r.w, raised |-> FALSE]

\* Mutant: flush handles one request and returns, whatever closing says.
flush_once(w, a, closing) ==
    IF w.closed[a] > 0 \/ w.inbox[a] = <<>>
    THEN w
    ELSE LET got == Pop(w, a)
             r == FlushTry(got, a, closing, got.popped[Len(got.popped)])
         IN IF r.raised THEN [r.w EXCEPT !.faults = @ + 1] ELSE r.w

RECURSIVE flush(_, _, _)
flush(w, a, closing) ==
    IF w.closed[a] > 0 \/ w.inbox[a] = <<>>
    THEN w
    ELSE LET got == Pop(w, a)
             req == got.popped[Len(got.popped)]
             r == FlushTry(got, a, closing, req)
         IN IF r.raised
            THEN LET c == ExceptClause([r EXCEPT !.w.faults = @ + 1])
                 IN IF c.raised
                    THEN [c.w EXCEPT !.escaped = TRUE]
                    ELSE flush(c.w, a, closing)
            ELSE IF ~closing THEN r.w ELSE flush(r.w, a, closing)

\* ------------------------------------------------------------- __call__
\* time() counts units of 0.05 s: a number of seconds in those units.
Units(seconds) == 20 * seconds

\* Mutant: the tolerance without the default for timeout 0.
ToleAlwaysScaled(a) == (ToleranceNum * Units(timeout[a])) \div ToleranceDen

Tole(a) ==
    IF timeout[a] = 0
    THEN Units(DEFAULT_ACTOR_TIMEOUT)
    ELSE (ToleranceNum * Units(timeout[a])) \div ToleranceDen

\* Mutant: no debounce, every tick notifies.
NotifyTimeAlways(w, a) == now

\* Mutant: the debounce test with <= in place of <.
NotifyTimeStrict(w, a) ==
    IF w.lastNotified[a] # NoTime /\ now - w.lastNotified[a] <= Tole(a)
    THEN NoTime
    ELSE now

\* nt after the debounce test: NoTime stands for None.
NotifyTime(w, a) ==
    IF w.lastNotified[a] # NoTime /\ now - w.lastNotified[a] < Tole(a)
    THEN NoTime
    ELSE now

NotifyEnv(a, t) == Env(a, "notify", None, FALSE, t)

\* Mutant: the heartbeat is left out while the actor is stopping.
HeartbeatUnlessStopping(w, a) ==
    IF arbiter[a] # None /\ impl[a] # "monitor" /\ ~w.stopping[a]
    THEN LET nt == NotifyTime(w, a)
         IN IF nt # NoTime /\ nt # 0
            THEN ProxySend([w EXCEPT !.lastNotified[a] = nt, !.beats = @ + 1],
                           arbiter[a], NotifyEnv(a, nt)).w
            ELSE w
    ELSE w

\* Mutant: the heartbeat of every kind of actor, with or without an arbiter.
HeartbeatAnyKind(w, a) ==
    LET nt == NotifyTime(w, a)
    IN IF nt # NoTime /\ nt # 0
       THEN ProxySend([w EXCEPT !.lastNotified[a] = nt, !.beats = @ + 1],
                      arbiter[a], NotifyEnv(a, nt)).w
       ELSE w

Heartbeat(w, a) ==
    IF arbiter[a] # None /\ impl[a] # "monitor"
    THEN LET nt == NotifyTime(w, a)
         IN IF nt # NoTime /\ nt # 0
            THEN ProxySend([w EXCEPT !.lastNotified[a] = nt, !.beats = @ + 1],
                           arbiter[a], NotifyEnv(a, nt)).w
            ELSE w
    ELSE w

OnTask(w, a) == IF ~w.stopping[a] THEN [w EXCEPT !.tasks = @ + 1] ELSE w

call(w, a) ==
    LET w1 == flush(w, a, FALSE)
    IN IF w1.escaped THEN w1 ELSE OnTask(Heartbeat(w1, a), a)

\* ------------------------------------------------------------- start and _run
\* _run: ioloop.start() blocks until the loop ends; RunEnd is its finally clause.
RunEnter(w, a) == [w EXCEPT !.loop[a] = "running", !.inRun[a] = TRUE]

RunEnd(w, a, how) ==
    _stop([w EXCEPT !.loop[a] = "stopped", !.inRun[a] = FALSE, !.runExit[a] = how], a)

\* Mutant: the state is RUN already when on_start is called.
CallOnStartRunning(w, a) == [w EXCEPT !.onStartN[a] = @ + 1, !.state[a] = RUN]

\* self.on_start()
CallOnStart(w, a) == [w EXCEPT !.onStartN[a] = @ + 1]

\* self._state = self.RUN
SetRun(w, a) == [w EXCEPT !.state[a] = RUN]

start(w, a) ==
    IF w.state[a] = INITIAL
    THEN RunEnter(SetRun(CallOnStart(w, a), a), a)
    ELSE w

\* Mutant: every exception of ioloop.start() leaves _run and start().
LeaveRaisesAll(how) == IF how = "return" THEN "returned_self" ELSE "exit_raised"

\* How start() ends after _run: SystemExit is raised again after the finally
\* clause, any other exception is logged, and start() returns self.
Leave(how) == IF how = "systemexit" THEN "exit_raised" ELSE "returned_self"

\* The stop signal of the ioloop fires: every registered callback runs _stop.
RECURSIVE FireCallbacks(_, _)
FireCallbacks(w, a) ==
    IF w.cbPending[a] = 0
    THEN w
    ELSE FireCallbacks(_stop([w EXCEPT !.cbPending[a] = @ - 1], a), a)

\* ------------------------------------------------------------- actions
Bounded(w, cap) == \A b \in Actors : Len(w.inbox[b]) <= cap

Start(a) ==
    /\ Commit(start(World, a), "start", a)
    /\ UNCHANGED <<cfgVars, now, pc>>

Stop(a) ==
    /\ Commit(stop(World, a), "stop", a)
    /\ UNCHANGED <<cfgVars, now, pc>>

Terminate(a) ==
    /\ Commit(terminate(World, a), "terminate", a)
    /\ UNCHANGED <<cfgVars, now, pc>>

Link(a, other) ==
    /\ Commit(link(World, a, other), "link", a)
    /\ UNCHANGED <<cfgVars, now, pc>>

\* One iteration of the event loop calls the registered loop task.
TickEnabled(a) == inRun[a] /\ loop[a] \in {"running", "stopping"} /\ loopTask[a]

Tick(a, cap) ==
    /\ TickEnabled(a)
    /\ LET w == call(World, a)
       IN Bounded(w, cap) /\ Commit(w, "tick", a)
    /\ UNCHANGED <<cfgVars, now, pc>>

\* The scheduler confirms that it has stopped.
LoopStopped(a) ==
    /\ cbPending[a] > 0
    /\ loop[a] \in {"stopping", "stopped"}
    /\ Commit(FireCallbacks([World EXCEPT !.loop[a] = "stopped"], a), "loop_stopped", a)
    /\ UNCHANGED <<cfgVars, now, pc>>

\* ioloop.start() ends: by returning, by an exception or by SystemExit.
RunExit(a, how) ==
    /\ inRun[a]
    /\ how = "return" => loop[a] # "stopping"
    /\ Commit(RunEnd(World, a, how), "run_exit", a)
    /\ UNCHANGED <<cfgVars, now, pc>>

\* Another actor's proxy puts an envelope on a's inbox; a request that wants an
\* acknowledgement registers its waiter.
Send(a, env, cap) ==
    /\ closed[a] = 0
    /\ Len(inbox[a]) < cap
    /\ LET w == [World EXCEPT !.inbox[a] = Append(@, env)]
       IN Commit(IF env.ack /\ env.rid \in Rids
                 THEN [w EXCEPT !.waiters[env.rid] = "pending"]
                 ELSE w, "send", a)
    /\ UNCHANGED <<cfgVars, now, pc>>

HowExit == {"return", "exception", "systemexit"}

\* ------------------------------------------------------------- initial states
Config(i, arb, mon, t, r) ==
    [impl |-> i, arbiter |-> arb, monitor |-> mon, timeout |-> t, onStopRet |-> r]

Worker == Config("thread", Arb, Mon, 1, FALSE)

\* The state after construction (_init) of actors with the given configuration.
InitWith(cfg) ==
    /\ state = [a \in Actors |-> INITIAL]
    /\ stopping = [a \in Actors |-> FALSE]
    /\ inbox = [a \in Actors |-> <<>>]
    /\ closed = [a \in Actors |-> 0]
    /\ linked = [a \in Actors |-> {}]
    /\ lastNotified = [a \in Actors |-> NoTime]
    /\ notified = [a \in Actors |-> [b \in Aids |-> NoTime]]
    /\ loop = [a \in Actors |-> "init"]
    /\ cbPending = [a \in Actors |-> 0]
    /\ loopTask = [a \in Actors |-> TRUE]
    /\ inRun = [a \in Actors |-> FALSE]
    /\ runExit = [a \in Actors |-> "none"]
    /\ onStartN = [a \in Actors |-> 0]
    /\ onStopN = [a \in Actors |-> 0]
    /\ onExitN = [a \in Actors |-> 0]
    /\ stopReqN = [a \in Actors |-> 0]
    /\ exitNoticeN = [a \in Actors |-> 0]
    /\ pendingAtStop = [a \in Actors |-> 0]
    /\ waiters = [r \in Rids |-> "none"]
    /\ impl = [a \in Actors |-> cfg[a].impl]
    /\ arbiter = [a \in Actors |-> cfg[a].arbiter]
    /\ monitor = [a \in Actors |-> cfg[a].monitor]
    /\ timeout = [a \in Actors |-> cfg[a].timeout]
    /\ onStopRet = [a \in Actors |-> cfg[a].onStopRet]
    /\ now = 1
    /\ pc = [t \in Threads |-> "idle"]
    /\ last = NoLast

\* ------------------------------------------------------------- lifecycle
\* One actor, B, driven through its whole lifecycle by one thread of control.
LifeConfigs ==
    {Config("thread", Arb, Mon, 1, r) : r \in BOOLEAN}
    \cup {Config("monitor", arb, None, 1, r) : arb \in {Arb, None}, r \in BOOLEAN}

LifeEnvs ==
    {Env(Arb, "stop", None, FALSE, None),
     Env(Peer, "ping", "r1", TRUE, None),
     Env(Peer, "task", "r1", TRUE, "raise")}

Init ==
    \E c \in LifeConfigs : InitWith([a \in Actors |-> IF a = "B" THEN c ELSE Worker])

Next ==
    \/ Start("B")
    \/ Stop("B")
    \/ Terminate("B")
    \/ Link("B", Peer)
    \/ Tick("B", MaxInbox)
    \/ LoopStopped("B")
    \/ \E how \in HowExit : RunExit("B", how)
    \/ \E env \in LifeEnvs : Send("B", env, MaxInbox)

Spec == Init /\ [][Next]_vars

\* ------------------------------------------------------------- dispatch
\* One started actor, B, and the envelopes a peer P can send it; P is linked or not.
DispatchEnvs ==
    {Env(Peer, n, IF k THEN "r1" ELSE "r2", k, None) :
        n \in {"ping", "stop"}, k \in BOOLEAN}
    \cup {Env(Peer, "bogus", "r1", TRUE, None), Env(Peer, "task", "r1", TRUE, "raise")}

InitDispatch == InitWith([a \in Actors |-> Worker])

NextDispatch ==
    \/ Start("B")
    \/ Link("B", Peer)
    \/ Tick("B", MaxDispatchInbox)
    \/ \E env \in DispatchEnvs : Send("B", env, MaxDispatchInbox)

SpecDispatch == InitDispatch /\ [][NextDispatch]_vars

\* ------------------------------------------------------------- two threads in stop()
\* stop() of B run by two threads, one statement at a time.
TStopBegin(t, a) ==
    /\ pc[t] = "idle"
    /\ pc' = [pc EXCEPT ![t] = IF StopGuard(World, a) THEN "set" ELSE "done"]
    /\ Commit(World, "t_guard", a)
    /\ UNCHANGED <<cfgVars, now>>

TStopSet(t, a) ==
    /\ pc[t] = "set"
    /\ pc' = [pc EXCEPT ![t] = "on_stop"]
    /\ Commit(SetStopping(World, a), "t_set", a)
    /\ UNCHANGED <<cfgVars, now>>

TStopOnStop(t, a) ==
    /\ pc[t] = "on_stop"
    /\ pc' = [pc EXCEPT ![t] = IF ~onStopRet[a] THEN "ioloop" ELSE "done"]
    /\ Commit(CallOnStop(World, a), "t_on_stop", a)
    /\ UNCHANGED <<cfgVars, now>>

TStopIoloop(t, a) ==
    /\ pc[t] = "ioloop"
    /\ pc' = [pc EXCEPT ![t] = "done"]
    /\ Commit(AddStopCallback(StopIoloop(World, a), a), "t_ioloop", a)
    /\ UNCHANGED <<cfgVars, now>>

ConcEnvs == {Env(Peer, "ping", "r1", TRUE, None)}

InitConc ==
    \E r \in BOOLEAN :
        InitWith([a \in Actors |-> IF a = "B" THEN Config("thread", Arb, Mon, 1, r)
                                   ELSE Worker])

NextConc ==
    \/ Start("B")
    \/ Link("B", Peer)
    \/ Tick("B", MaxInbox)
    \/ LoopStopped("B")
    \/ \E how \in HowExit : RunExit("B", how)
    \/ \E env \in ConcEnvs : Send("B", env, MaxInbox)
    \/ \E t \in Threads : TStopBegin(t, "B")
    \/ \E t \in Threads : TStopSet(t, "B")
    \/ \E t \in Threads : TStopOnStop(t, "B")
    \/ \E t \in Threads : TStopIoloop(t, "B")

SpecConc == InitConc /\ [][NextConc]_vars

\* ------------------------------------------------------------- two actors
\* A and B, each able to link the other and to send it a ping through its proxy.
PingEnv(from, rid) == Env(from, "ping", rid, TRUE, None)

InitPing == InitWith([a \in Actors |-> Config("thread", Arb, None, 1, FALSE)])

NextPing ==
    \/ \E a \in Actors : Start(a)
    \/ \E a \in Actors : \E b \in Actors : Link(a, b)
    \/ \E a \in Actors : Tick(a, MaxPingInbox)
    \/ \E a \in Actors : \E b \in Actors \ {a} : Send(b, PingEnv(a, "r1"), MaxPingInbox)

SpecPing == InitPing /\ [][NextPing]_vars

\* ------------------------------------------------------------- heartbeat
\* One actor ticked by its scheduler once per time unit.
HeartbeatTimeouts == {1, 10}

PeriodicTick(a) ==
    /\ now < MaxTime
    /\ TickEnabled(a)
    /\ Commit(call(World, a), "tick", a)
    /\ now' = now + 1
    /\ UNCHANGED <<cfgVars, pc>>

InitHeartbeat ==
    \E t \in HeartbeatTimeouts :
        InitWith([a \in Actors |-> Config("thread", Arb, Mon, t, FALSE)])

NextHeartbeat ==
    \/ Start("B")
    \/ PeriodicTick("B")

SpecHeartbeat == InitHeartbeat /\ [][NextHeartbeat]_vars

\* ------------------------------------------------------------- properties
progVars == <<state, stopping, inbox, closed, linked, lastNotified, notified, loop,
              cbPending, loopTask, inRun, runExit, onStartN, onStopN, onExitN,
              stopReqN, exitNoticeN, waiters>>

\* C1: the lifecycle state never decreases; start() on an actor whose state is at
\* least RUN changes nothing (no on_start, no state change), and stop() or
\* terminate() on an actor whose state is at least CLOSE changes nothing (no
\* on_stop, no on_exit, no state change, no close of the mailbox).
LifecycleMonotone ==
    [][/\ \A a \in Actors : state'[a] >= state[a]
       /\ \A a \in Actors :
            (last'.op = "start" /\ last'.a = a /\ state[a] >= RUN)
                => UNCHANGED progVars
       /\ \A a \in Actors :
            (last'.op \in {"stop", "terminate"} /\ last'.a = a /\ state[a] >= CLOSE)
                => UNCHANGED progVars]_vars

\* C1 witness: stop() has just been called on a closed actor that was started,
\* stopped and finalized once.
StopOnClosedActor ==
    /\ last.op = "stop"
    /\ state["B"] = CLOSE
    /\ onStartN["B"] = 1 /\ onStopN["B"] = 1 /\ onExitN["B"] = 1 /\ closed["B"] = 1

\* C2: with stop() run by two threads, on_exit runs exactly once and the mailbox
\* is closed exactly once: never twice, and once when both calls and the
\* scheduler's stop signal are through.
StopTwiceFinalizesOnce ==
    \A a \in Actors :
        /\ onExitN[a] <= 1
        /\ closed[a] <= 1
        /\ ((\A t \in Threads : pc[t] = "done") /\ cbPending[a] = 0 /\ stopReqN[a] > 0)
               => (onExitN[a] = 1 /\ closed[a] = 1)

\* The callbacks sent by the last operation to aid for correlation id rid.
CallbacksTo(aid, rid) ==
    {i \in DOMAIN last.out :
        /\ last.out[i].to = aid
        /\ last.out[i].env.name = "callback"
        /\ last.out[i].env.rid = rid}

\* The accepted envelopes of the last operation from aid with id rid and flag ack.
AcceptedFrom(aid, rid, ack) ==
    {i \in DOMAIN last.accepted :
        /\ last.accepted[i].aid = aid
        /\ last.accepted[i].rid = rid
        /\ last.accepted[i].ack = ack}

\* C3: every accepted envelope with ackRequired = true gets exactly one callback,
\* sent to its sender with its correlation id, whatever the handler does.
AckedGetsCallback ==
    last.op = "tick" =>
        \A aid \in Aids : \A rid \in Rids :
            AcceptedFrom(aid, rid, TRUE) # {} =>
                Cardinality(CallbacksTo(aid, rid)) = Cardinality(AcceptedFrom(aid, rid, TRUE))

\* C4: no callback is sent for an envelope with ackRequired = false, whatever its name.
UnackedGetsNoCallback ==
    last.op = "tick" =>
        \A i \in DOMAIN last.popped :
            ~last.popped[i].ack => CallbacksTo(last.popped[i].aid, last.popped[i].rid) = {}

PongEnv(from, rid) == Env(from, "callback", rid, FALSE, "pong")

\* The tick of b that finds a's ping r1 at the head of its inbox.
PingTick(a, b) ==
    /\ last'.op = "tick" /\ last'.a = b
    /\ inbox[b] # <<>> /\ Head(inbox[b]) = PingEnv(a, "r1")

\* What the operation that led to the next state sent to aid.
SentTo(aid) == LET To(m) == m.to = aid IN SelectSeq(last'.out, To)

PingAnswered(a, b) ==
    /\ last'.dispatched = <<PingEnv(a, "r1")>>
    /\ SentTo(a) = <<[to |-> a, env |-> PongEnv(b, "r1")]>>
    /\ inbox'[a] = Append(inbox[a], PongEnv(b, "r1"))

\* The tick of a that finds b's callback (r1, pong) at the head of its inbox.
PongTick(a, b) ==
    /\ last'.op = "tick" /\ last'.a = a
    /\ inbox[a] # <<>> /\ Head(inbox[a]) = PongEnv(b, "r1")
    /\ waiters["r1"] = "pending"

DrainedBeforeFinalize ==
    \A a \in Actors :
        (onExitN[a] > 0 \/ state[a] = CLOSE \/ closed[a] > 0) => pendingAtStop[a] = 0

\* C7: once the run call of a started actor has ended, on whatever path, on_exit
\* has been invoked, the state is CLOSE and the mailbox is closed.
FinalizedOnRunExit ==
    \A a \in Actors :
        runExit[a] # "none" => (onExitN[a] >= 1 /\ state[a] = CLOSE /\ closed[a] >= 1)

\* C8: a tick outside shutdown takes at most one envelope from the mailbox.
OneEnvelopePerTick ==
    last.op = "tick" => Len(last.popped) <= 1

\* The heartbeat is due at the tick of a (timeout > 0, 4 units of tolerance per
\* second of timeout).
HeartbeatDue(a) ==
    /\ arbiter[a] # None
    /\ impl[a] # "monitor"
    /\ (lastNotified[a] = NoTime \/ now - lastNotified[a] >= 4 * timeout[a])

\* C9: a handler's exception does not leave the tick: the lifecycle state is
\* unchanged, the heartbeat and on_task run as in any tick, the envelopes not
\* taken stay queued in order and the tick stays scheduled.
TickSurvivesFault ==
    [][\A a \in Actors :
          (last'.op = "tick" /\ last'.a = a /\ last'.faults > 0) =>
              /\ ~last'.escaped
              /\ state'[a] = state[a]
              /\ last'.beats = (IF HeartbeatDue(a) THEN 1 ELSE 0)
              /\ last'.tasks = (IF stopping'[a] THEN 0 ELSE 1)
              /\ inbox'[a] = SubSeq(inbox[a], Len(last'.popped) + 1, Len(inbox[a]))
              /\ TickEnabled(a)']_vars

\* C9 witness: a tick in which a handler raised has sent the heartbeat and run
\* on_task, and an envelope is still queued.
FaultyTickCompleted ==
    /\ last.op = "tick" /\ last.a = "B"
    /\ last.faults > 0
    /\ last.beats = 1 /\ last.tasks = 1
    /\ inbox["B"] # <<>>

\* C10: a tick of a non-monitor actor with an arbiter and timeout > 0 sends
\* notify(now) and sets lastNotified = now exactly when there is no earlier
\* notification or now - lastNotified >= tole (4 units per second of timeout);
\* with timeout 10 and a tick per unit from time 1 on, the notifies fall exactly
\* on the ticks at 1, 41, 81, ...: one per window of 40 units.
HeartbeatDebounce ==
    [][\A a \in Actors :
          (last'.op = "tick" /\ last'.a = a /\ arbiter[a] # None
             /\ impl[a] # "monitor" /\ timeout[a] > 0) =>
              /\ last'.beats = (IF HeartbeatDue(a) THEN 1 ELSE 0)
              /\ HeartbeatDue(a) =>
                    /\ lastNotified'[a] = now
                    /\ SentTo(arbiter[a]) = <<[to |-> arbiter[a], env |-> NotifyEnv(a, now)]>>
              /\ ~HeartbeatDue(a) =>
                    /\ lastNotified'[a] = lastNotified[a]
                    /\ SentTo(arbiter[a]) = <<>>
              /\ timeout[a] = 10 => (last'.beats = 1 <=> (now - 1) % 40 = 0)]_vars

\* C10 witness: with timeout 10 the tick at time 41 has sent the second notify.
SecondHeartbeat ==
    /\ last.op = "tick" /\ last.a = "B"
    /\ timeout["B"] = 10
    /\ last.beats = 1
    /\ lastNotified["B"] = 41

\* ------------------------------------------------------------- heartbeat, timeout 0
\* One actor without a timeout, ticked at irregular periods below the default
\* timeout (1 s, 5 s and just under 30 s).
TickPeriods == {20, 100, 599}

TickEvery(a, d) ==
    /\ now + d <= MaxIdleTime
    /\ TickEnabled(a)
    /\ Commit(call(World, a), "tick", a)
    /\ now' = now + d
    /\ UNCHANGED <<cfgVars, pc>>

InitIdle == InitWith([a \in Actors |-> Config("thread", Arb, Mon, 0, FALSE)])

NextIdle ==
    \/ Start("B")
    \/ \E d \in TickPeriods : TickEvery("B", d)

SpecIdle == InitIdle /\ [][NextIdle]_vars

\* C11: an actor with timeout 0 uses tole = DEFAULT_ACTOR_TIMEOUT (30 s, 600
\* units): a tick sends notify exactly when there is no earlier notification or
\* 600 units have passed since the last one, so no two notifies are closer than
\* 600 units, and after every tick the last notify is less than 600 units old (the
\* next one follows within 600 units plus the period to the next tick).
IdleHeartbeat ==
    [][\A a \in Actors :
          (last'.op = "tick" /\ last'.a = a /\ timeout[a] = 0
             /\ arbiter[a] # None /\ impl[a] # "monitor") =>
              /\ last'.beats = (IF lastNotified[a] = NoTime \/ now - lastNotified[a] >= 600
                                THEN 1 ELSE 0)
              /\ (last'.beats = 1 /\ lastNotified[a] # NoTime) => now - lastNotified[a] >= 600
              /\ lastNotified'[a] # NoTime
              /\ now - lastNotified'[a] < 600
              /\ now' - lastNotified'[a] < 600 + (now' - now)]_vars

\* C11 witness: an actor without timeout has sent a second notify, more than 600
\* units after the first one at time 1.
IdleSecondHeartbeat ==
    /\ last.op = "tick" /\ last.a = "B"
    /\ timeout["B"] = 0
    /\ last.beats = 1
    /\ lastNotified["B"] > 601

\* ------------------------------------------------------------- links and routing
\* One started actor, B, that links itself, a peer, its arbiter or its monitor,
\* and the on_actor_exit envelopes those send it.  The arbiter and the monitor
\* may be absent, and one actor may be both.
LinkConfigs ==
    {Config("thread", arb, mon, 1, FALSE) : arb \in {Arb, None}, mon \in {Mon, Arb, None}}

LinkTargets == {"B", Peer, Arb, Mon}

ExitEnv(from) == Env(from, "on_actor_exit", None, FALSE, None)

LinkEnvs == {ExitEnv(s) : s \in LinkTargets} \cup {Env(Peer, "ping", "r1", TRUE, None)}

InitLink ==
    \E c \in LinkConfigs : InitWith([a \in Actors |-> IF a = "B" THEN c ELSE Worker])

NextLink ==
    \/ Start("B")
    \/ \E t \in LinkTargets : Link("B", t)
    \/ Tick("B", MaxLinkInbox)
    \/ \E env \in LinkEnvs : Send("B", env, MaxLinkInbox)

SpecLink == InitLink /\ [][NextLink]_vars

\* a's tick has handed an on_actor_exit envelope of b, which a had linked, to its handler.
ExitDispatched(a, b) ==
    /\ last'.op = "tick" /\ last'.a = a
    /\ b \in linked[a]
    /\ \E i \in DOMAIN last'.dispatched : last'.dispatched[i] = ExitEnv(b)

\* get_actor(b) on a after the step.
RouteAfter(a, b) == get_actor([linked |-> linked'], a, b)

TickOn(req) ==
    /\ last'.op = "tick" /\ last'.a = "B"
    /\ inbox["B"] # <<>> /\ Head(inbox["B"]) = req

\* The tick changed nothing of B that a handler could change.
ActorUntouched ==
    /\ state' = state /\ stopping' = stopping /\ linked' = linked
    /\ waiters' = waiters /\ loop' = loop /\ cbPending' = cbPending
    /\ onStopN' = onStopN /\ stopReqN' = stopReqN /\ closed' = closed

\* C13: dispatching a request whose name has no handler changes nothing of the
\* actor (lifecycle state, stopping flag, link registry, last_notified) and sends
\* no callback, also when the request asks for an acknowledgement; the request
\* is consumed and no error is raised.
UnknownNameDropped ==
    [][\A req \in DispatchEnvs :
          (TickOn(req) /\ ~HasHandler(req.name) /\ get_actor(World, "B", req.aid).aid # None) =>
              /\ handle_request_from_actor(World, "B", get_actor(World, "B", req.aid), req)
                    = [w |-> World, raised |-> FALSE]
              /\ last'.popped = <<req>> /\ last'.accepted = <<req>>
              /\ last'.dispatched = <<>>
              /\ last'.faults = 0 /\ ~last'.escaped
              /\ inbox'["B"] = Tail(inbox["B"])
              /\ SentTo(req.aid) = <<>>
              /\ ActorUntouched
              /\ lastNotified'["B"] = Heartbeat(World, "B").lastNotified["B"]]_vars

\* C13 witness: a tick of the running B consumed a request with an unknown name
\* from the linked peer, asking for an acknowledgement.
UnknownNameConsumed ==
    /\ last.op = "tick" /\ last.a = "B"
    /\ last.accepted = <<Env(Peer, "bogus", "r1", TRUE, None)>>
    /\ last.dispatched = <<>>
    /\ state["B"] = RUN /\ Peer \in linked["B"]

\* C14: with closing false, a request whose sender is neither the actor itself,
\* a linked actor, the arbiter nor the monitor is taken off the inbox and never
\* handled: no handler runs, no callback is sent and the actor is unchanged.
UnlinkedSenderDropped ==
    [][\A req \in DispatchEnvs :
          (TickOn(req) /\ get_actor(World, "B", req.aid) = NoActor) =>
              /\ FlushTry(World, "B", FALSE, req) = [w |-> World, raised |-> FALSE]
              /\ last'.popped = <<req>>
              /\ last'.accepted = <<>> /\ last'.dispatched = <<>>
              /\ last'.faults = 0 /\ ~last'.escaped
              /\ inbox'["B"] = Tail(inbox["B"])
              /\ SentTo(req.aid) = <<>>
              /\ ActorUntouched]_vars

\* C14 witness: a tick of the running B consumed a stop request of the unlinked
\* peer and B is not stopping.
UnlinkedStopIgnored ==
    /\ last.op = "tick" /\ last.a = "B"
    /\ last.popped = <<Env(Peer, "stop", "r2", FALSE, None)>>
    /\ last.accepted = <<>>
    /\ Peer \notin linked["B"]
    /\ state["B"] = RUN /\ ~stopping["B"]

\* ------------------------------------------------------------- dispatch order
\* Requests to B stamped with the time of their sending, from the peer and from
\* the arbiter; B ticks, or flushes its inbox with closing true.
OrderSenders == {Peer, Arb}

OrderNames == {"notify", "on_actor_exit"}

Stamped(from, name, t) == Env(from, name, None, FALSE, t)

SendStamped(a, from, name) ==
    /\ closed[a] = 0
    /\ Len(inbox[a]) < MaxOrderInbox
    /\ now < MaxOrderTime
    /\ Commit([World EXCEPT !.inbox[a] = Append(@, Stamped(from, name, now))], "send", a)
    /\ now' = now + 1
    /\ UNCHANGED <<cfgVars, pc>>

\* flush(closing=True): the inbox is emptied in one call.
Drain(a) ==
    /\ is_alive(World, a)
    /\ Commit(flush(World, a, TRUE), "drain", a)
    /\ UNCHANGED <<cfgVars, now, pc>>

InitOrder == InitWith([a \in Actors |-> Worker])

NextOrder ==
    \/ Start("B")
    \/ Link("B", Peer)
    \/ Tick("B", MaxOrderInbox)
    \/ Drain("B")
    \/ \E s \in OrderSenders, n \in OrderNames : SendStamped("B", s, n)

SpecOrder == InitOrder /\ [][NextOrder]_vars

\* The sending times of the requests of sender s in a sequence of requests.
RECURSIVE StampsOf(_, _)
StampsOf(q, s) ==
    IF q = <<>> THEN <<>>
    ELSE IF Head(q).aid = s
         THEN <<Head(q).arg>> \o StampsOf(Tail(q), s)
         ELSE StampsOf(Tail(q), s)

Increasing(q) == \A i, j \in DOMAIN q : i < j => q[i] < q[j]

\* C15: the requests of one sender are handed to their handlers in the order of
\* their sending.  In every tick and every flush with closing true, the requests
\* of a sender that are dispatched are dispatched oldest first, they are all
\* older than the sender's requests still queued, and newer than the sender's
\* last notify handled before.
DispatchInSendOrder ==
    [][\A s \in OrderSenders :
          LET d == StampsOf(last'.dispatched, s)
              q == StampsOf(inbox'["B"], s)
          IN /\ Increasing(d)
             /\ Increasing(q)
             /\ (d # <<>> /\ q # <<>>) => d[Len(d)] < q[1]
             /\ d # <<>> => notified["B"][s] < d[1]]_vars

\* C15 witness: one flush with closing true dispatched two requests of the peer
\* with a request of the arbiter between them, after an earlier dispatch.
TwoDispatchedInOrder ==
    /\ last.op = "drain"
    /\ Len(StampsOf(last.dispatched, Peer)) = 2
    /\ Len(last.dispatched) = 3
    /\ last.dispatched[2].aid = Arb
    /\ last.dispatched[1].arg > 1

\* ------------------------------------------------------------- closing the inbox
\* C16: with one thread, the inbox is closed at most once, only by _stop, and only
\* once the ioloop has stopped (its stop signal has fired or ioloop.start() has
\* ended); a closed inbox is never met by a later tick.
ClosedOnceAfterLoop ==
    [][\A a \in Actors :
          /\ closed'[a] <= 1
          /\ closed'[a] # closed[a] =>
                /\ last'.op \in {"loop_stopped", "run_exit"} /\ last'.a = a
                /\ stopping[a] /\ ~stopping'[a]
                /\ onExitN'[a] = onExitN[a] + 1
                /\ state'[a] = CLOSE
                /\ loop'[a] = "stopped"
          /\ closed'[a] > 0 => ~TickEnabled(a)']_vars

\* C16 witness: the stop signal of the ioloop has fired and B's inbox is closed.
ClosedByStopSignal ==
    /\ last.op = "loop_stopped" /\ last.a = "B"
    /\ closed["B"] = 1
    /\ onStopN["B"] = 1 /\ onExitN["B"] = 1

\* ------------------------------------------------------------- terminate
\* C17: terminate() does what stop() does: in every reachable state both give the
\* same next state, the same hook calls and the same messages, and a step of
\* terminate() is the step stop() would have made.
TerminateIsStop ==
    [][\A a \in Actors :
          /\ terminate(World, a) = stop(World, a)
          /\ (last'.op = "terminate" /\ last'.a = a) =>
                LET w == stop(World, a)
                IN /\ state' = w.state /\ stopping' = w.stopping
                   /\ onStopN' = w.onStopN /\ onExitN' = w.onExitN
                   /\ stopReqN' = w.stopReqN /\ cbPending' = w.cbPending
                   /\ loop' = w.loop /\ loopTask' = w.loopTask
                   /\ closed' = w.closed /\ inbox' = w.inbox
                   /\ linked' = w.linked /\ exitNoticeN' = w.exitNoticeN
                   /\ last'.out = w.out]_vars

\* C17 witness: terminate() on the running B set the stopping flag, called
\* on_stop and asked the ioloop to stop.
TerminateStopped ==
    /\ last.op = "terminate" /\ last.a = "B"
    /\ state["B"] = RUN /\ stopping["B"]
    /\ onStopN["B"] = 1 /\ stopReqN["B"] = 1

\* ------------------------------------------------------------- forced shutdown
\* pickle.dumps(actor): pickle calls __reduce__; a value returned would be written
\* out, an exception leaves the call.
Pickle(a) ==
    /\ LET r == reduce(World, a)
       IN Commit(IF r.raised
                 THEN [r.w EXCEPT !.escaped = TRUE]
                 ELSE [r.w EXCEPT !.out = Append(@, [to |-> None, env |-> Env(a, "pickled", None, FALSE, None)])],
                 "pickle", a)
    /\ UNCHANGED <<cfgVars, now, pc>>

\* B is started, pickled and shut down by terminate() only.
ForcedEnvs == {Env(Peer, "ping", "r1", TRUE, None)}

InitForced ==
    \E c \in LifeConfigs : InitWith([a \in Actors |-> IF a = "B" THEN c ELSE Worker])

NextForced ==
    \/ Start("B")
    \/ Terminate("B")
    \/ Pickle("B")
    \/ Link("B", Peer)
    \/ Tick("B", MaxForcedInbox)
    \/ LoopStopped("B")
    \/ \E how \in HowExit : RunExit("B", how)
    \/ \E env \in ForcedEnvs : Send("B", env, MaxForcedInbox)

SpecForced == InitForced /\ [][NextForced]_vars

\* C18: pickling an Actor fails with a PicklingError in every lifecycle state and
\* changes nothing of the actor.
PickleFails ==
    [][\A a \in Actors :
          /\ reduce(World, a) = [w |-> World, raised |-> TRUE]
          /\ (last'.op = "pickle" /\ last'.a = a) =>
                /\ last'.escaped
                /\ last'.out = <<>>
                /\ UNCHANGED progVars]_vars

\* C18 witness: the pickling of the closed B has failed.
PickleOfClosedFailed ==
    /\ last.op = "pickle" /\ last.a = "B" /\ last.escaped
    /\ state["B"] = CLOSE /\ closed["B"] = 1

\* C19 as stated: a shutdown forced with terminate() from RUN ends in the state
\* TERMINATE (every shutdown here is one forced with terminate()).
TerminateReachesTerminated ==
    \A a \in Actors : state[a] >= CLOSE => state[a] = TERMINATE

\* C19 amended: the state TERMINATE is never reached; terminate() from RUN leaves
\* the state RUN, and the shutdown it starts ends in CLOSE.
TerminateReachesClosed ==
    [][\A a \in Actors :
          /\ state'[a] \in {INITIAL, RUN, CLOSE}
          /\ (last'.op = "terminate" /\ last'.a = a) => state'[a] = state[a]
          /\ onExitN'[a] > onExitN[a] => (state[a] = RUN /\ state'[a] = CLOSE /\ onStopN[a] = 1)]_vars

\* C19 witness: the shutdown of B started by terminate() has ended, in CLOSE.
TerminatedIsClosed ==
    /\ state["B"] = CLOSE
    /\ onStopN["B"] = 1 /\ onExitN["B"] = 1 /\ closed["B"] = 1

\* ------------------------------------------------------------- get_actor
\* The one source that the priority order self, link registry, arbiter, monitor
\* gives for aid on a, or "none".
RouteBy(a, aid) ==
    CASE aid = a -> "self"
      [] aid # a /\ aid \in linked[a] -> "link"
      [] aid # a /\ aid \notin linked[a] /\ arbiter[a] # None /\ arbiter[a] = aid -> "arbiter"
      [] aid # a /\ aid \notin linked[a] /\ ~(arbiter[a] # None /\ arbiter[a] = aid)
           /\ monitor[a] # None /\ monitor[a] = aid -> "monitor"
      [] OTHER -> "none"

\* C20: get_actor(aid) answers in the order self, link registry, arbiter,
\* monitor: the actor's own proxy for its own aid, else the linked actor (also
\* when it is the arbiter or the monitor), else the arbiter if there is one with
\* that aid, else the monitor if there is one with that aid, else nothing.
GetActorPriority ==
    \A aid \in Aids \cup {None} :
        get_actor(World, "B", aid) =
            (IF RouteBy("B", aid) = "none" THEN NoActor
             ELSE [aid |-> aid, via |-> RouteBy("B", aid)])

\* C20 witness: B has linked itself and its arbiter, and the actor that is both
\* its arbiter and its monitor; the lookups answer self, link and link.
LinkedArbiterRouted ==
    /\ {"B", Arb} \subseteq linked["B"]
    /\ arbiter["B"] = Arb /\ monitor["B"] = Arb
    /\ get_actor(World, "B", "B").via = "self"
    /\ get_actor(World, "B", Arb).via = "link"
    /\ get_actor(World, "B", Peer) = NoActor

\* ------------------------------------------------------------- stop while handling
\* C21: a stop request met while a request is handled, the stop request a tick
\* dispatches included, leaves the state RUN until the handling is over: stop(),
\* terminate() and every tick leave the state as it is, and the state leaves RUN
\* only in _stop, run by the ioloop's stop signal or at the end of _run.
RunningUntilFinalize ==
    [][\A a \in Actors :
          /\ last'.op \in {"stop", "terminate", "tick"} => state'[a] = state[a]
          /\ (last'.op = "tick" /\ last'.a = a /\ stopping'[a] /\ ~stopping[a]) =>
                /\ \E i \in DOMAIN last'.dispatched : last'.dispatched[i].name = "stop"
                /\ last'.popped = last'.accepted
                /\ ~last'.escaped
                /\ state'[a] = RUN /\ closed'[a] = 0 /\ onExitN'[a] = onExitN[a]
          /\ (state[a] = RUN /\ state'[a] # RUN) =>
                /\ last'.op \in {"loop_stopped", "run_exit"} /\ last'.a = a
                /\ stopping[a]
                /\ state'[a] = CLOSE /\ onExitN'[a] = onExitN[a] + 1]_vars

\* C21 witness: a tick of B has dispatched the arbiter's stop request; B is
\* stopping and still in RUN.
StopDispatchedStillRunning ==
    /\ last.op = "tick" /\ last.a = "B"
    /\ last.dispatched = <<Env(Arb, "stop", None, FALSE, None)>>
    /\ stopping["B"] /\ state["B"] = RUN /\ onStopN["B"] = 1

\* ------------------------------------------------------------- heartbeat, any actor
\* B as a thread actor or a monitor, with or without an arbiter, ticked at
\* uneven periods, also while it is stopping.
BeatPeriods == {1, 3}

BeatConfigs ==
    {Config(i, arb, Mon, t, FALSE) : i \in {"thread", "monitor"}, arb \in {Arb, None}, t \in {1, 2}}

TickAfter(a, d) ==
    /\ now + d <= MaxBeatTime
    /\ TickEnabled(a)
    /\ Commit(call(World, a), "tick", a)
    /\ now' = now + d
    /\ UNCHANGED <<cfgVars, pc>>

InitBeat ==
    \E c \in BeatConfigs : InitWith([a \in Actors |-> IF a = "B" THEN c ELSE Worker])

NextBeat ==
    \/ Start("B")
    \/ Stop("B")
    \/ \E d \in BeatPeriods : TickAfter("B", d)
    \/ LoopStopped("B")

SpecBeat == InitBeat /\ [][NextBeat]_vars

\* a is an actor that notifies: not a monitor, and with an arbiter.
Notifier(a) == arbiter[a] # None /\ impl[a] # "monitor"

\* No earlier notify, or at least the tolerance has passed since it.
ToleElapsed(a) == lastNotified[a] = NoTime \/ now - lastNotified[a] >= Tole(a)

\* The step is a tick of a.
TickOf(a) == last'.op = "tick" /\ last'.a = a

\* The notify requests the step has sent.
NotifiesSent == LET IsNotify(m) == m.env.name = "notify" IN SelectSeq(last'.out, IsNotify)

\* C22 as stated: a tick made while the stopping flag is set sends no notify
\* and leaves last_notified as it is.
NoHeartbeatWhileStopping ==
    [][\A a \in Actors :
          (TickOf(a) /\ stopping[a]) =>
              /\ last'.beats = 0
              /\ NotifiesSent = <<>>
              /\ lastNotified'[a] = lastNotified[a]]_vars

\* C22 amended: a tick made while the stopping flag is set runs the heartbeat
\* check as any other tick does, and leaves out only on_task.
HeartbeatWhileStopping ==
    [][\A a \in Actors :
          (TickOf(a) /\ stopping[a]) =>
              /\ last'.tasks = 0
              /\ (Notifier(a) /\ ToleElapsed(a)) =>
                    /\ last'.beats = 1
                    /\ NotifiesSent = <<[to |-> arbiter[a], env |-> NotifyEnv(a, now)]>>
                    /\ lastNotified'[a] = now
              /\ ~(Notifier(a) /\ ToleElapsed(a)) =>
                    /\ last'.beats = 0
                    /\ NotifiesSent = <<>>
                    /\ lastNotified'[a] = lastNotified[a]]_vars

\* C22 witness: a tick of the stopping B has sent a notify, not its first.
NotifiedWhileStopping ==
    /\ last.op = "tick" /\ last.a = "B"
    /\ stopping["B"]
    /\ last.beats = 1 /\ last.tasks = 0
    /\ lastNotified["B"] > 1

\* C23: a monitor, and an actor without an arbiter, never sends a notify and
\* never sets last_notified, however often it is ticked.
OnlyNotifiersNotify ==
    [][\A a \in Actors :
          ~Notifier(a) =>
              /\ lastNotified'[a] = NoTime
              /\ TickOf(a) => (last'.beats = 0 /\ NotifiesSent = <<>>)]_vars

\* C23 witness: a monitor with an arbiter has been ticked up to time 10 and has
\* never notified.
MonitorTickedSilently ==
    /\ last.op = "tick" /\ last.a = "B"
    /\ impl["B"] = "monitor" /\ arbiter["B"] = Arb
    /\ now >= 10
    /\ lastNotified["B"] = NoTime

\* C24 as stated: two consecutive notifies are never more than the tolerance
\* apart.
NotifyWithinTole ==
    [][\A a \in Actors :
          (TickOf(a) /\ Notifier(a) /\ last'.beats = 1 /\ lastNotified[a] # NoTime) =>
              now - lastNotified[a] <= Tole(a)]_vars

\* C24 amended: two consecutive notifies are never less than the tolerance
\* apart, and after every tick less than the tolerance has passed since the last
\* notify, so that the next notify comes before the tolerance plus the time to
\* the next tick has passed.
NotifyGap ==
    [][\A a \in Actors :
          (TickOf(a) /\ Notifier(a)) =>
              /\ (last'.beats = 1 /\ lastNotified[a] # NoTime) =>
                    now - lastNotified[a] >= Tole(a)
              /\ lastNotified'[a] # NoTime
              /\ now - lastNotified'[a] < Tole(a)
              /\ now' - lastNotified'[a] < Tole(a) + (now' - now)]_vars

\* C24 witness: B has sent a notify more than the tolerance after the one
\* before it.
NotifiedLate ==
    /\ last.op = "tick" /\ last.a = "B"
    /\ timeout["B"] = 1
    /\ last.beats = 1
    /\ lastNotified["B"] = 7

\* ------------------------------------------------------------- start(), step by step
\* A thread in start() of B, one statement at a time; pc is its place in
\* start(), and in the end what start() gave its caller.  on_start is a hook of
\* the subclass and may raise.  Calls of start() do not overlap.
InStart(t) == pc[t] \in {"on_start", "set_run", "run"}

TStartBegin(t, a) ==
    /\ pc[t] = "idle"
    /\ \A u \in Threads : ~InStart(u)
    /\ pc' = [pc EXCEPT ![t] = IF state[a] = INITIAL THEN "on_start" ELSE "returned_none"]
    /\ Commit(World, "start_begin", a)
    /\ UNCHANGED <<cfgVars, now>>

TStartOnStart(t, a, raises) ==
    /\ pc[t] = "on_start"
    /\ pc' = [pc EXCEPT ![t] = IF raises THEN "on_start_raised" ELSE "set_run"]
    /\ Commit([CallOnStart(World, a) EXCEPT !.escaped = raises], "on_start", a)
    /\ UNCHANGED <<cfgVars, now>>

TStartSetRun(t, a) ==
    /\ pc[t] = "set_run"
    /\ pc' = [pc EXCEPT ![t] = "run"]
    /\ Commit(SetRun(World, a), "set_run", a)
    /\ UNCHANGED <<cfgVars, now>>

TStartRun(t, a) ==
    /\ pc[t] = "run"
    /\ pc' = [pc EXCEPT ![t] = "in_run"]
    /\ Commit(RunEnter(World, a), "run", a)
    /\ UNCHANGED <<cfgVars, now>>

\* ioloop.start() ends and the finally clause of _run runs.
TStartFinally(t, a, how) ==
    /\ pc[t] = "in_run"
    /\ inRun[a]
    /\ how = "return" => loop[a] # "stopping"
    /\ pc' = [pc EXCEPT ![t] = "finally_done"]
    /\ Commit(RunEnd(World, a, how), "run_exit", a)
    /\ UNCHANGED <<cfgVars, now>>

TStartLeave(t, a) ==
    /\ pc[t] = "finally_done"
    /\ pc' = [pc EXCEPT ![t] = Leave(runExit[a])]
    /\ Commit([World EXCEPT !.escaped = (Leave(runExit[a]) = "exit_raised")], "leave", a)
    /\ UNCHANGED <<cfgVars, now>>

InitStart ==
    \E c \in LifeConfigs : InitWith([a \in Actors |-> IF a = "B" THEN c ELSE Worker])

NextStart ==
    \/ \E t \in Threads : TStartBegin(t, "B")
    \/ \E t \in Threads, raises \in BOOLEAN : TStartOnStart(t, "B", raises)
    \/ \E t \in Threads : TStartSetRun(t, "B")
    \/ \E t \in Threads : TStartRun(t, "B")
    \/ \E t \in Threads, how \in HowExit : TStartFinally(t, "B", how)
    \/ \E t \in Threads : TStartLeave(t, "B")
    \/ Stop("B")
    \/ Tick("B", MaxForcedInbox)
    \/ LoopStopped("B")
    \/ \E env \in ForcedEnvs : Send("B", env, MaxForcedInbox)

SpecStart == InitStart /\ [][NextStart]_vars

\* C25: start() from INITIAL calls on_start before the state is RUN and sets the
\* state to RUN before it enters ioloop.start(): is_alive() is false while
\* on_start runs, the state stays INITIAL if on_start raises, the state is RUN
\* when the run call is entered, and start() returns the actor when the run call
\* has returned.
StartInOrder ==
    [][\A t \in Threads :
          /\ pc'[t] = "on_start" => (state'["B"] = INITIAL /\ ~is_alive(World, "B")')
          /\ (pc[t] = "on_start" /\ pc'[t] # pc[t]) =>
                /\ pc'[t] \in {"set_run", "on_start_raised"}
                /\ onStartN'["B"] = onStartN["B"] + 1
                /\ state["B"] = INITIAL /\ state'["B"] = INITIAL
                /\ ~inRun'["B"] /\ loop'["B"] = "init"
          /\ pc'[t] = "set_run" => (state'["B"] = INITIAL /\ ~is_alive(World, "B")')
          /\ (pc[t] = "on_start_raised" /\ state["B"] = INITIAL /\ ~(\E u \in Threads : InStart(u)')) =>
                state'["B"] = INITIAL
          /\ (pc[t] = "set_run" /\ pc'[t] # pc[t]) =>
                (pc'[t] = "run" /\ state'["B"] = RUN /\ ~inRun'["B"] /\ loop'["B"] = "init"
                   /\ onStartN'["B"] = onStartN["B"])
          /\ (pc[t] = "run" /\ pc'[t] # pc[t]) =>
                (pc'[t] = "in_run" /\ state["B"] = RUN /\ inRun'["B"] /\ loop'["B"] = "running")
          /\ inRun'["B"] => (state'["B"] >= RUN /\ onStartN'["B"] >= 1)
          /\ (pc[t] = "finally_done" /\ pc'[t] # pc[t] /\ runExit["B"] = "return") =>
                pc'[t] = "returned_self"
          /\ pc'[t] = "returned_self" => (onStartN'["B"] >= 1 /\ ~inRun'["B"] /\ state'["B"] >= RUN)]_vars

\* C25 witness: start() has returned the actor after ioloop.start() returned.
StartReturnedSelf ==
    /\ pc["t1"] = "returned_self"
    /\ runExit["B"] = "return"
    /\ onStartN["B"] = 1

\* C28: an exception of ioloop.start() other than SystemExit is logged and
\* start() returns; SystemExit leaves start(), and only after the finally clause
\* of _run has called _stop.
ExitAfterFinally ==
    [][\A t \in Threads :
          /\ (pc[t] = "in_run" /\ pc'[t] # pc[t]) =>
                /\ pc'[t] = "finally_done"
                /\ ~inRun'["B"] /\ runExit'["B"] \in HowExit
                /\ stopping["B"] =>
                      (onExitN'["B"] = onExitN["B"] + 1 /\ state'["B"] = CLOSE /\ ~stopping'["B"])
                /\ ~stopping["B"] => (onExitN'["B"] = onExitN["B"] /\ state'["B"] = state["B"])
          /\ (pc[t] = "finally_done" /\ pc'[t] # pc[t]) =>
                /\ runExit["B"] = "exception" => (pc'[t] = "returned_self" /\ ~last'.escaped)
                /\ runExit["B"] = "systemexit" => (pc'[t] = "exit_raised" /\ last'.escaped)
          /\ pc'[t] = "exit_raised" => (runExit'["B"] = "systemexit" /\ ~inRun'["B"])]_vars

\* C28 witness: SystemExit has left start() of the stopping B after _stop ran.
SystemExitAfterFinalize ==
    /\ pc["t1"] = "exit_raised"
    /\ runExit["B"] = "systemexit"
    /\ state["B"] = CLOSE /\ onExitN["B"] = 1 /\ closed["B"] = 1
    /\ last.op = "leave"

\* ------------------------------------------------------------- two-phase stop
\* The lifecycle of B with an ioloop that does confirm a requested stop.
NextTwoPhase ==
    \/ Start("B")
    \/ Stop("B")
    \/ Tick("B", MaxForcedInbox)
    \/ LoopStopped("B")
    \/ \E how \in HowExit : RunExit("B", how)
    \/ \E env \in ForcedEnvs : Send("B", env, MaxForcedInbox)

SpecTwoPhase == InitForced /\ [][NextTwoPhase]_vars /\ WF_vars(LoopStopped("B"))

\* The step is a stop() of the running, not stopping a whose on_stop returns
\* nothing.
StopAccepted(a) ==
    last'.op = "stop" /\ last'.a = a /\ StopGuard(World, a) /\ ~onStopRet[a]

\* C26 as stated: after a stop() whose on_stop returned nothing, _stop runs only
\* when the ioloop's stop signal fires.
FinalizeOnlyOnSignal ==
    [][\A a \in Actors :
          (~onStopRet[a] /\ onExitN'[a] > onExitN[a]) => last'.op = "loop_stopped"]_vars

\* C26 amended: such a stop() sets the stopping flag, asks the ioloop to stop
\* once and registers _stop on its stop signal without running it; _stop runs
\* only once the ioloop has stopped, at the signal or at the end of _run if
\* ioloop.start() ends first; and with an ioloop that confirms, the actor
\* reaches CLOSE.
TwoPhaseStop ==
    /\ [][\A a \in Actors :
             /\ StopAccepted(a) =>
                   /\ stopping'[a] /\ state'[a] = RUN
                   /\ onStopN'[a] = onStopN[a] + 1
                   /\ stopReqN'[a] = stopReqN[a] + 1
                   /\ cbPending'[a] = cbPending[a] + 1
                   /\ onExitN'[a] = onExitN[a] /\ closed'[a] = closed[a]
             /\ stopReqN'[a] <= 1
             /\ onExitN'[a] > onExitN[a] =>
                   /\ last'.op \in {"loop_stopped", "run_exit"}
                   /\ stopping[a] /\ loop'[a] = "stopped"
                   /\ last'.op = "run_exit" => runExit'[a] \in HowExit]_vars
    /\ \A a \in Actors : (stopping[a] /\ ~onStopRet[a]) ~> (state[a] = CLOSE)

\* C26 witness: the stop signal has fired after a stop() whose on_stop returned
\* nothing, before ioloop.start() ended, and B is closed.
ClosedBySignal ==
    /\ last.op = "loop_stopped" /\ last.a = "B"
    /\ ~onStopRet["B"]
    /\ stopReqN["B"] = 1 /\ runExit["B"] = "none"
    /\ state["B"] = CLOSE /\ ~stopping["B"]

\* ------------------------------------------------------------- _stop, step by step
\* _stop of B one statement at a time, called by the ioloop's stop signal and by
\* the finally clause of _run; pc is the place in _stop.  The calls do not
\* overlap and nothing else runs during one.
FinalizeSteps ==
    {"fin_on_exit", "fin_set_close", "fin_remove", "fin_notice", "fin_clear", "fin_close"}

InFinalize(t) == pc[t] \in FinalizeSteps

Quiet == \A t \in Threads : ~InFinalize(t)

\* The caller of _stop: the stop signal that fires, or _run that ends.
FinalizeEntry(a, via) ==
    IF via = "signal"
    THEN [World EXCEPT !.loop[a] = "stopped", !.cbPending[a] = @ - 1]
    ELSE [World EXCEPT !.loop[a] = "stopped", !.inRun[a] = FALSE, !.runExit[a] = via]

TFinBegin(t, a, via) ==
    /\ pc[t] = "idle" /\ Quiet
    /\ IF via = "signal"
       THEN cbPending[a] > 0 /\ loop[a] \in {"stopping", "stopped"}
       ELSE inRun[a] /\ (via = "return" => loop[a] # "stopping")
    /\ LET w == FinalizeEntry(a, via)
       IN /\ pc' = [pc EXCEPT ![t] = IF FinalizeGuard(w, a) THEN "fin_on_exit" ELSE "fin_skipped"]
          /\ Commit(w, "fin_begin", a)
    /\ UNCHANGED <<cfgVars, now>>

TFinStep(t, a, at, to, w) ==
    /\ pc[t] = at
    /\ pc' = [pc EXCEPT ![t] = to]
    /\ Commit(w, at, a)
    /\ UNCHANGED <<cfgVars, now>>

TFinNotice(t, a) ==
    /\ pc[t] = "fin_notice"
    /\ LET r == IF impl[a] # "monitor"
                THEN ProxySend(World, arbiter[a], ExitNotice(a))
                ELSE [w |-> World, raised |-> FALSE]
       IN /\ pc' = [pc EXCEPT ![t] = IF r.raised THEN "fin_raised" ELSE "fin_clear"]
          /\ Commit(IF r.raised THEN [r.w EXCEPT !.escaped = TRUE]
                    ELSE IF impl[a] # "monitor" THEN [r.w EXCEPT !.exitNoticeN[a] = @ + 1]
                    ELSE r.w, "fin_notice", a)
    /\ UNCHANGED <<cfgVars, now>>

\* The other operations, between two calls of _stop.
QuietStart(a) == Quiet /\ Start(a)
QuietStop(a) == Quiet /\ Stop(a)
QuietTick(a) == Quiet /\ Tick(a, MaxForcedInbox)
QuietSend(a, env) == Quiet /\ Send(a, env, MaxForcedInbox)

NextFinalize ==
    \/ QuietStart("B")
    \/ QuietStop("B")
    \/ QuietTick("B")
    \/ \E env \in ForcedEnvs : QuietSend("B", env)
    \/ \E t \in Threads, via \in {"signal"} \cup HowExit : TFinBegin(t, "B", via)
    \/ \E t \in Threads : TFinStep(t, "B", "fin_on_exit", "fin_set_close", CallOnExit(World, "B"))
    \/ \E t \in Threads : TFinStep(t, "B", "fin_set_close", "fin_remove", SetClose(World, "B"))
    \/ \E t \in Threads : TFinStep(t, "B", "fin_remove", "fin_notice", RemoveLoopTask(World, "B"))
    \/ \E t \in Threads : TFinNotice(t, "B")
    \/ \E t \in Threads : TFinStep(t, "B", "fin_clear", "fin_close", ClearStopping(World, "B"))
    \/ \E t \in Threads : TFinStep(t, "B", "fin_close", "fin_done", CloseInbox(World, "B"))

SpecFinalize == InitForced /\ [][NextFinalize]_vars

\* What _stop has done of B so far.
Done(a) ==
    [on_exit |-> onExitN[a], state |-> state[a], task |-> loopTask[a],
     notice |-> exitNoticeN[a], stopping |-> stopping[a], closed |-> closed[a]]

LinkedBy == Actors \cup {Peer}

NextLinks ==
    \/ \E a \in Actors : Start(a)
    \/ \E a \in Actors : \E b \in LinkedBy : Link(a, b)
    \/ \E a \in Actors : Tick(a, MaxLinksInbox)
    \/ \E a \in Actors : \E b \in Actors \ {a} : Send(b, PingEnv(a, "r1"), MaxLinksInbox)

SpecLinks == InitPing /\ [][NextLinks]_vars

NotifyRecordsOnCaller ==
    [][/\ \A s \in OrderSenders, k \in BOOLEAN :
             get_actor(World, "B", s) # NoActor =>
                 LET req == Env(s, "notify", IF k THEN "r1" ELSE None, k, now)
                     r == handle_request_from_actor(World, "B", get_actor(World, "B", s), req)
                 IN /\ ~r.raised
                    /\ r.w = [World EXCEPT !.notified["B"][s] = now, !.dispatched = <<req>>]
       /\ \A s \in OrderSenders :
             (TickOf("B") /\ Len(last'.dispatched) = 1 /\ last'.dispatched[1].aid = s
                /\ last'.dispatched[1].name = "notify") =>
                 /\ last'.faults = 0
                 /\ notified'["B"] = [notified["B"] EXCEPT ![s] = last'.dispatched[1].arg]
                 /\ state' = state /\ linked' = linked /\ stopping' = stopping
                 /\ lastNotified'["B"] = Heartbeat(World, "B").lastNotified["B"]
                 /\ \A i \in DOMAIN last'.out : last'.out[i].env.name # "callback"
                 /\ waiters' = waiters]_vars

\* C30 witness: a tick of B has dispatched a notify of the linked peer and
\* recorded its time for the peer.
PeerNotifyRecorded ==
    /\ last.op = "tick" /\ last.a = "B"
    /\ Len(last.dispatched) = 1
    /\ last.dispatched[1].aid = Peer /\ last.dispatched[1].name = "notify"
    /\ Peer \in linked["B"]
    /\ notified["B"][Peer] = last.dispatched[1].arg
    /\ notified["B"][Peer] > 1

\* ------------------------------------------------------------- acknowledgement flags
\* The built-in handlers that are marked ack = False, and those that are not.
NoAckNames == {"callback", "stop", "notify", "on_actor_exit"}

AckNames == {"info", "ping"}

\* A request of sender s for a built-in handler, with or without the request's
\* own acknowledgement flag.
BuiltinReq(s, name, k) ==
    Env(s, name, IF k THEN "r1" ELSE "r2", k,
        IF name = "notify" THEN now ELSE IF name = "callback" THEN "pong" ELSE None)

\* What handle_request_from_actor on B sends for that request.
SentFor(s, name, k) ==
    handle_request_from_actor(World, "B", get_actor(World, "B", s), BuiltinReq(s, name, k)).w.out

\* C31: callback, stop, notify and on_actor_exit are marked ack = False and their
\* dispatch sends no callback (a callback is not answered by a callback); info,
\* ping and a handler without a mark are acknowledged, and the dispatch of info or
\* ping from a resolved sender sends one callback with the request's rid; the
\* marks are the same in every state.
AckFlagsOfHandlers ==
    [][/\ \A name \in NoAckNames : ~HandlerAck(name)
       /\ \A name \in AckNames \cup {"task"} : HandlerAck(name)
       /\ \A s \in Aids, k \in BOOLEAN :
             get_actor(World, "B", s) # NoActor =>
                 /\ \A name \in NoAckNames : SentFor(s, name, k) = <<>>
                 /\ \A name \in AckNames :
                       SentFor(s, name, k) =
                           <<[to |-> s,
                              env |-> Env("B", "callback", BuiltinReq(s, name, k).rid, FALSE,
                                          IF name = "ping" THEN "pong" ELSE "info")]>>
       /\ \A req \in DispatchEnvs :
             (TickOf("B") /\ last'.dispatched = <<req>>) =>
                 /\ req.name \in AckNames =>
                       SentTo(req.aid) = <<[to |-> req.aid,
                                            env |-> Env("B", "callback", req.rid, FALSE, "pong")]>>
                 /\ req.name \in NoAckNames => SentTo(req.aid) = <<>>]_vars

\* C31 witness: a tick of B has dispatched a ping of the linked peer that asked
\* for no acknowledgement and has sent the callback with its rid.
PingAcknowledged ==
    /\ last.op = "tick" /\ last.a = "B"
    /\ last.dispatched = <<Env(Peer, "ping", "r2", FALSE, None)>>
    /\ \E i \in DOMAIN last.out :
          last.out[i] = [to |-> Peer, env |-> Env("B", "callback", "r2", FALSE, "pong")]

\* ------------------------------------------------------------- flush with closing true
\* B with requests of the peer, linked or not, and of its arbiter, flushed with
\* closing true and ticked.
DrainEnvs == DispatchEnvs \cup {Env(Arb, "ping", "r1", TRUE, None)}

NextDrain ==
    \/ Start("B")
    \/ Link("B", Peer)
    \/ Tick("B", MaxDispatchInbox)
    \/ Drain("B")
    \/ \E env \in DrainEnvs : Send("B", env, MaxDispatchInbox)

SpecDrain == InitDispatch /\ [][NextDrain]_vars

\* The step is a flush of B with closing true.
DrainOf(a) == last'.op = "drain" /\ last'.a = a

\* C32: flush with closing true takes every request of the inbox, oldest first,
\* and ends with the inbox empty, whatever the handlers do: answer, raise, not
\* exist, or belong to a sender that is not known.
DrainToEmpty ==
    [][DrainOf("B") =>
          /\ last'.popped = inbox["B"]
          /\ inbox'["B"] = <<>>
          /\ ~last'.escaped
          /\ closed'["B"] = 0 /\ state'["B"] = RUN]_vars

\* C32 witness: one flush with closing true has taken three requests in the
\* order of the inbox: an answered ping of the arbiter, a request without a
\* handler of the peer that B has not linked, and a task whose handler raised.
DrainedMixedInbox ==
    /\ last.op = "drain" /\ last.a = "B"
    /\ Peer \notin linked["B"]
    /\ last.popped = <<Env(Arb, "ping", "r1", TRUE, None),
                       Env(Peer, "bogus", "r1", TRUE, None),
                       Env(Peer, "task", "r1", TRUE, "raise")>>
    /\ inbox["B"] = <<>>

\* The requests of q that have a handler.
Handled(q) == LET Has(m) == HasHandler(m.name) IN SelectSeq(q, Has)

\* The requests of q whose handling raises when B flushes with closing true: the
\* handler itself raises, or its answer has no one to go to.
Raising(q) ==
    LET Bad(m) == \/ m.name = "task"
                  \/ m.name = "ping" /\ get_actor(World, "B", m.aid) = NoActor
    IN SelectSeq(q, Bad)

\* C33: with closing true the request of a sender that is not known is not
\* dropped: its handler is called with no caller (a stop request stops the
\* actor), the error of answering no one is caught, and the flush goes on to the
\* end of the inbox.
DrainHandlesUnknownSender ==
    [][DrainOf("B") =>
          /\ last'.accepted = inbox["B"]
          /\ last'.dispatched = Handled(inbox["B"])
          /\ last'.faults = Len(Raising(inbox["B"]))
          /\ ~last'.escaped
          /\ inbox'["B"] = <<>>
          /\ \A i \in DOMAIN last'.out : last'.out[i].to # None
          /\ (\E i \in DOMAIN inbox["B"] : inbox["B"][i].name = "stop") => stopping'["B"]]_vars

\* C33 witness: a flush with closing true has called the handlers of a ping and
\* a stop of the peer that B has not linked: the answer to the ping failed, B is
\* stopping, and the request after them has been answered.
UnknownSenderHandled ==
    /\ last.op = "drain" /\ last.a = "B"
    /\ Peer \notin linked["B"]
    /\ last.dispatched = <<Env(Peer, "ping", "r1", TRUE, None),
                           Env(Peer, "stop", "r2", FALSE, None),
                           Env(Arb, "ping", "r1", TRUE, None)>>
    /\ last.faults = 1
    /\ stopping["B"]
    /\ last.out = <<[to |-> Arb, env |-> Env("B", "callback", "r1", FALSE, "pong")]>>

\* ------------------------------------------------------------- flags and state
\* B in every configuration _init accepts: a thread actor or a monitor, with or
\* without an arbiter (arbiter = None is the default of _init).
GuardConfigs ==
    {Config(i, arb, None, 1, r) : i \in {"thread", "monitor"}, arb \in {Arb, None}, r \in BOOLEAN}

InitGuard ==
    \E c \in GuardConfigs : InitWith([a \in Actors |-> IF a = "B" THEN c ELSE Worker])

NextGuard ==
    \/ Start("B")
    \/ Stop("B")
    \/ Terminate("B")
    \/ Tick("B", MaxForcedInbox)
    \/ LoopStopped("B")
    \/ \E how \in HowExit : RunExit("B", how)
    \/ \E env \in LifeEnvs : Send("B", env, MaxForcedInbox)

SpecGuard == InitGuard /\ [][NextGuard]_vars

OpOf(op) == last'.op = op /\ last'.a = "B"

\* C35: when on_stop returns a true value, stop() does not ask the ioloop to
\* stop and registers no _stop: the actor stays in RUN with the stopping flag
\* set, a further stop(), terminate() or stop request changes nothing, ticks do
\* not call on_task, and the state CLOSE is reached only when the run call ends
\* on its own.
OnStopTakesOver ==
    [][onStopRet["B"] =>
          /\ stopReqN'["B"] = 0 /\ cbPending'["B"] = 0
          /\ ((OpOf("stop") \/ OpOf("terminate")) /\ state["B"] = RUN /\ ~stopping["B"]) =>
                /\ stopping'["B"] /\ state'["B"] = RUN
                /\ onStopN'["B"] = onStopN["B"] + 1
                /\ onExitN' = onExitN /\ closed' = closed /\ loop' = loop
                /\ loopTask' = loopTask
          /\ ((OpOf("stop") \/ OpOf("terminate")) /\ stopping["B"]) => UNCHANGED progVars
          /\ (OpOf("tick") /\ stopping["B"]) =>
                /\ last'.tasks = 0
                /\ state' = state /\ stopping' = stopping /\ onStopN' = onStopN
                /\ onExitN' = onExitN /\ closed' = closed /\ loop' = loop
                /\ loopTask' = loopTask
          /\ (stopping["B"] /\ ~OpOf("run_exit")) => (stopping'["B"] /\ state'["B"] = RUN)
          /\ (state["B"] # CLOSE /\ state'["B"] = CLOSE) =>
                (OpOf("run_exit") /\ stopping["B"] /\ onExitN'["B"] = onExitN["B"] + 1)]_vars

\* C35 witness: B, whose on_stop returns a true value, was stopped once, was
\* never asked to stop its ioloop, and is closed by the end of its run call.
ClosedByRunExitOnly ==
    /\ onStopRet["B"]
    /\ last.op = "run_exit" /\ last.a = "B"
    /\ state["B"] = CLOSE /\ closed["B"] = 1 /\ ~stopping["B"]
    /\ onStopN["B"] = 1 /\ stopReqN["B"] = 0 /\ loopTask["B"] = FALSE

\* ------------------------------------------------------------- exit notice of an actor not linked
\* The senders get_actor of B finds without the link registry: B itself, its
\* arbiter and its monitor.
KnownUnlinked == ({"B", arbiter["B"], monitor["B"]} \ {None}) \ linked["B"]

\* The requests the step has sent that are callbacks.
CallbacksSent == LET IsCallback(m) == m.env.name = "callback" IN SelectSeq(last'.out, IsCallback)

\* C36: an on_actor_exit request of a sender that get_actor finds as the actor
\* itself, its arbiter or its monitor, but that is not in the link registry,
\* makes the handler raise; the error is caught in flush: the link registry, the
\* state and the stopping flag stay as they are, no callback is sent and nothing
\* is raised out of the tick.
UnlinkedExitAbsorbed ==
    [][\A s \in KnownUnlinked :
          /\ get_actor(World, "B", s).aid = s
          /\ handle_request_from_actor(World, "B", get_actor(World, "B", s), ExitEnv(s))
                = [w |-> [World EXCEPT !.dispatched = <<ExitEnv(s)>>], raised |-> TRUE]
          /\ TickOn(ExitEnv(s)) =>
                /\ last'.faults >= 1 /\ ~last'.escaped
                /\ last'.dispatched[1] = ExitEnv(s)
                /\ state' = state /\ stopping' = stopping /\ closed' = closed
                /\ s \notin linked'["B"]
          /\ (TickOn(ExitEnv(s)) /\ Len(inbox["B"]) = 1) =>
                /\ last'.faults = 1
                /\ last'.popped = <<ExitEnv(s)>> /\ inbox'["B"] = <<>>
                /\ linked' = linked /\ ActorUntouched
                /\ CallbacksSent = <<>>]_vars

\* C36 witness: a tick of B has dispatched the on_actor_exit of its arbiter,
\* which it has not linked: one error was caught and the tick ended normally.
ArbiterExitAbsorbed ==
    /\ last.op = "tick" /\ last.a = "B"
    /\ arbiter["B"] = Arb /\ Arb \notin linked["B"]
    /\ last.dispatched = <<ExitEnv(Arb)>>
    /\ last.faults = 1 /\ ~last.escaped
    /\ state["B"] = RUN /\ ~stopping["B"]

====
